---- MODULE Spec2Model ----
(***************************************************************************)
(* qsingleton: the #[singleton] attribute macro (src/src/lib.rs).          *)
(*                                                                         *)
(* The macro parses its arguments (SingletonArgs::parse), derives the name *)
(* of a static OnceLock from the struct's name, and generates two          *)
(* associated functions on the struct: init(instance), which sets the      *)
(* OnceLock once, and global(), which polls the OnceLock up to MAX_RETRIES *)
(* times, sleeping sleep_duration between polls, and panics when the       *)
(* OnceLock is still empty after the last poll.                            *)
(*                                                                         *)
(* Time is counted in ticks of one millisecond.  Every read carries its    *)
(* own stopwatch (elapsed), started by the call of global(); the action    *)
(* Tick advances all running stopwatches together.  thread::sleep(d)       *)
(* returns no earlier than d after it was called and may return later;     *)
(* a thread that is runnable may be delayed by the scheduler.              *)
(***************************************************************************)
EXTENDS Integers, Sequences, FiniteSets, TLC

\* const MAX_RETRIES: usize = 20 (the same in both generated impl blocks)
MAX_RETRIES == 20

\* the default of sleep_ms when the attribute gives none
DEFAULT_SLEEP_MS == 500

\* bound of the model: the ticks one read may lose to the scheduler, summed
\* over its polls (a late first poll, sleeps that return late)
MaxLate == 1

\* threads that call global(), threads that call init(), and the field
\* value of the instance each publisher constructs
Readers == {"r1", "r2"}
Publishers == {"p1", "p2"}
PayloadOf == [p \in Publishers |-> IF p = "p1" THEN "a" ELSE "b"]

----------------------------------------------------------------------------
\* Tokens of the attribute's argument list

Ident(s) == [kind |-> "ident", text |-> s, value |-> 0]
Punct(s) == [kind |-> "punct", text |-> s, value |-> 0]
LitInt(n) == [kind |-> "int", text |-> "", value |-> n]
\* an integer literal above u64::MAX, which base10_parse::<u64> rejects
HugeLitInt == [kind |-> "int", text |-> "huge", value |-> 0]

IsIdent(input) == Len(input) > 0 /\ input[1].kind = "ident"
IsPunct(input, s) == Len(input) > 0 /\ input[1] = Punct(s)
IsLitInt(input) == Len(input) > 0 /\ input[1].kind = "int"

ParseOk(arc, ms, rest) ==
    [ok |-> TRUE, use_arc |-> arc, sleep_ms |-> ms, rest |-> rest, err |-> ""]
ParseErr(msg) ==
    [ok |-> FALSE, use_arc |-> FALSE, sleep_ms |-> 0, rest |-> <<>>, err |-> msg]

\* a parser that reads the sleep value and keeps the default
ParseSleepValueDropped(arc, input) ==
    IF ~IsPunct(input, "=") THEN ParseErr("expected =")
    ELSE IF ~IsLitInt(Tail(input)) THEN ParseErr("expected integer literal")
    ELSE IF Tail(input)[1] = HugeLitInt THEN ParseErr("number too large")
    ELSE ParseOk(arc, DEFAULT_SLEEP_MS, Tail(Tail(input)))

\* `= <LitInt>` after the identifier sleep_ms: input.parse::<Token![=]>()?,
\* input.parse::<LitInt>()?, sleep_value.base10_parse()?
ParseSleepValue(arc, input) ==
    IF ~IsPunct(input, "=") THEN ParseErr("expected =")
    ELSE IF ~IsLitInt(Tail(input)) THEN ParseErr("expected integer literal")
    ELSE IF Tail(input)[1] = HugeLitInt THEN ParseErr("number too large")
    ELSE ParseOk(arc, Tail(input)[1].value, Tail(Tail(input)))

\* the branch first_ident == "arc": input is what follows the identifier
ParseAfterArc(input) ==
    IF ~IsPunct(input, ",") THEN ParseOk(TRUE, DEFAULT_SLEEP_MS, input)
    ELSE IF Tail(input) = <<>> THEN ParseOk(TRUE, DEFAULT_SLEEP_MS, <<>>)
    ELSE IF ~IsIdent(Tail(input)) THEN ParseErr("expected identifier")
    ELSE IF Tail(input)[1].text = "sleep_ms"
         THEN ParseSleepValue(TRUE, Tail(Tail(input)))
         ELSE ParseErr("Expected 'sleep_ms' parameter")

\* SingletonArgs::parse.  rest is what the parser left unread.
parse(input) ==
    IF input = <<>> THEN ParseOk(FALSE, DEFAULT_SLEEP_MS, <<>>)
    ELSE IF ~IsIdent(input) THEN ParseErr("expected identifier")
    ELSE IF input[1].text = "arc" THEN ParseAfterArc(Tail(input))
    ELSE IF input[1].text = "sleep_ms" THEN ParseSleepValue(FALSE, Tail(input))
    ELSE ParseErr("Expected 'arc' or 'sleep_ms' parameter")

\* parse_macro_input!(args as SingletonArgs): the parse must succeed and
\* must have read every token
Accepted(input) == parse(input).ok /\ parse(input).rest = <<>>

----------------------------------------------------------------------------
\* Names.  A name is a sequence of characters.

LowerAlpha == <<"a","b","c","d","e","f","g","h","i","j","k","l","m",
                "n","o","p","q","r","s","t","u","v","w","x","y","z">>
UpperAlpha == <<"A","B","C","D","E","F","G","H","I","J","K","L","M",
                "N","O","P","Q","R","S","T","U","V","W","X","Y","Z">>

\* char::to_uppercase on the ASCII letters
UpperChar(c) ==
    IF \E i \in 1..26 : LowerAlpha[i] = c
    THEN UpperAlpha[CHOOSE i \in 1..26 : LowerAlpha[i] = c]
    ELSE c

to_uppercase(name) == [i \in 1..Len(name) |-> UpperChar(name[i])]

\* format!("{}_INSTANCE", name.to_string().to_uppercase())
instance_name(name) ==
    to_uppercase(name) \o <<"_","I","N","S","T","A","N","C","E">>

\* what the macro fixes for one annotated struct: the static's name, the
\* impl block chosen by args.use_arc, and args.sleep_ms.unwrap_or(500)
Expand(decl) ==
    [name |-> decl.name,
     static |-> instance_name(decl.name),
     use_arc |-> parse(decl.args).use_arc,
     sleep_duration_ms |-> parse(decl.args).sleep_ms]

\* the annotated structs of the programs that are run
ConfigDecl ==
    [name |-> <<"C","o","n","f","i","g">>,
     args |-> <<Ident("sleep_ms"), Punct("="), LitInt(2)>>]
CacheDecl ==
    [name |-> <<"C","a","c","h","e">>,
     args |-> <<Ident("sleep_ms"), Punct("="), LitInt(1)>>]
DatabaseDecl ==
    [name |-> <<"D","a","t","a","b","a","s","e">>,
     args |-> <<Ident("arc"), Punct(","), Ident("sleep_ms"), Punct("="), LitInt(2)>>]
PoolDecl ==
    [name |-> <<"P","o","o","l">>,
     args |-> <<Ident("arc"), Punct(","), Ident("sleep_ms"), Punct("="), LitInt(1)>>]

\* the runs: a program (its annotated structs) and the threads that call
\* global() in it; every run has both publisher threads
Runs ==
    {[decls |-> {ConfigDecl}, readers |-> {"r1"}],
     [decls |-> {DatabaseDecl}, readers |-> {"r1"}],
     [decls |-> {CacheDecl}, readers |-> Readers],
     [decls |-> {PoolDecl}, readers |-> Readers]}

----------------------------------------------------------------------------
\* std::sync::OnceLock<T> and Arc<T>, as the generated code uses them.
\* A OnceLock is the empty sequence or a sequence of one value.

OnceLockNew == <<>>

\* a get that hands out a default value while the cell is empty
OnceLockGetOrDefault(cell) ==
    IF cell = <<>> THEN <<[data |-> "", arc |-> FALSE]>> ELSE cell

\* OnceLock::get: Some(&value) or None
OnceLockGet(cell) == cell

\* a set that stores unconditionally, as a plain assignment would
OnceLockSetOverwrite(cell, value) == [cell |-> <<value>>, res |-> "Ok"]

\* a set that reports Err on a full cell but has stored the value all the same
OnceLockSetClobber(cell, value) ==
    [cell |-> <<value>>, res |-> IF cell = <<>> THEN "Ok" ELSE "Err"]

\* a set that stores on an empty cell and reports Ok whatever it did
OnceLockSetSilent(cell, value) ==
    [cell |-> IF cell = <<>> THEN <<value>> ELSE cell, res |-> "Ok"]

\* OnceLock::set(value): Ok(()) and the value stored when the cell is empty,
\* Err(value) and the cell untouched otherwise
OnceLockSet(cell, value) ==
    IF cell = <<>>
    THEN [cell |-> <<value>>, res |-> "Ok"]
    ELSE [cell |-> cell, res |-> "Err"]

\* a struct instance, and Arc::new(instance)
Instance(payload) == [data |-> payload, arc |-> FALSE]
ArcNew(instance) == [data |-> instance.data, arc |-> TRUE]

\* the value init() hands to OnceLock::set in each impl block
Wrapped(st, instance) == IF st.use_arc THEN ArcNew(instance) ELSE instance

----------------------------------------------------------------------------
\* The running program

VARIABLES
    program,   \* the annotated structs, as the macro expanded them
    statics,   \* static #instance_name: OnceLock<..>, by the static's name
    rd,        \* each reader thread's call of global()
    pb,        \* each publisher thread's call of init()
    seen       \* by static: the values calls of global() have returned

vars == <<program, statics, rd, pb, seen>>

NoStruct ==
    [name |-> <<>>, static |-> <<>>, use_arc |-> FALSE, sleep_duration_ms |-> 0]

\* a thread that has not called global(): pc is the thread's place, retry
\* the loop variable, elapsed the ticks since the call, wake the value of
\* elapsed at which the current sleep is over, late the ticks lost to the
\* scheduler, ret the returned reference, panic the panic message.
\* attempts, sleeps, occAtCall and pubAt (elapsed when init() filled the
\* static during this call, -1 before) record what happened.
IdleReader ==
    [pc |-> "idle", ty |-> NoStruct, retry |-> 0, elapsed |-> 0, wake |-> 0,
     late |-> 0, attempts |-> 0, sleeps |-> 0, occAtCall |-> FALSE,
     pubAt |-> -1, ret |-> <<>>, panic |-> <<>>]

IdlePublisher ==
    [pc |-> "idle", ty |-> NoStruct, instance |-> Instance("a"), panic |-> <<>>]

Init ==
    /\ \E run \in Runs :
          /\ program = {Expand(d) : d \in run.decls}
          /\ rd = [r \in run.readers |-> IdleReader]
    /\ statics = [n \in {st.static : st \in program} |-> OnceLockNew]
    /\ pb = [p \in Publishers |-> IdlePublisher]
    /\ seen = [n \in {st.static : st \in program} |-> {}]

\* a message that reports the default interval instead of the configured one
NotInitializedDefault(st) ==
    [fmt |-> "Singleton '{}' not initialized after {} retries ({}ms each). Call init() first.",
     args |-> <<st.name, MAX_RETRIES, DEFAULT_SLEEP_MS>>]

\* the panic of global(): the format string and its three arguments
\* stringify!(#name), MAX_RETRIES, #sleep_duration_ms
NotInitialized(st) ==
    [fmt |-> "Singleton '{}' not initialized after {} retries ({}ms each). Call init() first.",
     args |-> <<st.name, MAX_RETRIES, st.sleep_duration_ms>>]

\* the message init() passes to expect()
AlreadyInitialized(st) ==
    [fmt |-> "Singleton '{}' already initialized", args |-> <<st.name>>]

\* a loop that sleeps after every empty poll, the last one included
ShouldSleepAlways(retry) == retry < MAX_RETRIES

\* if retry < MAX_RETRIES - 1 { thread::sleep(sleep_duration) }
ShouldSleep(retry) == retry < MAX_RETRIES - 1

\* a sleep of no length, and a sleep of twice the configured length
WakeAtOnce(s) == s.elapsed
WakeAtDouble(s) == s.elapsed + 2 * s.ty.sleep_duration_ms

\* an Arc mode whose sleep is twice the configured length
WakeAtArcDouble(s) ==
    IF s.ty.use_arc THEN s.elapsed + 2 * s.ty.sleep_duration_ms
    ELSE s.elapsed + s.ty.sleep_duration_ms

\* thread::sleep(sleep_duration): the earliest value of elapsed at which
\* the thread runs again
WakeAt(s) == s.elapsed + s.ty.sleep_duration_ms

\* a reader that is between the call of global() and its return or panic
Active(s) == s.pc \in {"entry", "sleep"}

\* a reader whose next poll can happen now: it has just called global(), or
\* its sleep is over
Runnable(s) == s.pc = "entry" \/ (s.pc = "sleep" /\ s.elapsed >= s.wake)

\* the call of global(): the thread enters the function with retry = 0
global(r, st) ==
    /\ r \in DOMAIN rd
    /\ rd[r].pc \in {"idle", "returned", "panicked"}
    /\ st \in program
    /\ rd' = [rd EXCEPT ![r] =
                [IdleReader EXCEPT !.pc = "entry", !.ty = st,
                                   !.occAtCall = (statics[st.static] # <<>>)]]
    /\ UNCHANGED <<program, statics, pb, seen>>

\* a loop that sleeps before it looks at the cell for the first time
LoopBodySleepFirst(s, found) ==
    IF found # <<>> /\ s.attempts > 0
    THEN [s EXCEPT !.pc = "returned", !.attempts = @ + 1, !.ret = found]
    ELSE IF s.retry < MAX_RETRIES - 1
    THEN [s EXCEPT !.pc = "sleep", !.attempts = @ + 1, !.sleeps = @ + 1,
                   !.wake = s.elapsed + s.ty.sleep_duration_ms]
    ELSE [s EXCEPT !.pc = "panicked", !.attempts = @ + 1,
                   !.panic = <<[fmt |-> "", args |-> <<>>]>>]

\* a loop whose last iteration panics without looking at what get() found
LoopBodyBlindLast(s, found) ==
    IF found # <<>> /\ s.retry < MAX_RETRIES - 1
    THEN [s EXCEPT !.pc = "returned", !.attempts = @ + 1, !.ret = found]
    ELSE IF s.retry < MAX_RETRIES - 1
    THEN [s EXCEPT !.pc = "sleep", !.attempts = @ + 1, !.sleeps = @ + 1,
                   !.wake = s.elapsed + s.ty.sleep_duration_ms]
    ELSE [s EXCEPT !.pc = "panicked", !.attempts = @ + 1,
                   !.panic = <<[fmt |-> "Singleton '{}' not initialized after {} retries ({}ms each). Call init() first.",
                                args |-> <<s.ty.name, MAX_RETRIES, s.ty.sleep_duration_ms>>]>>]

\* a loop that repeats its last iteration instead of giving up
LoopBodyNoGiveUp(s, found) ==
    IF found # <<>>
    THEN [s EXCEPT !.pc = "returned", !.attempts = @ + 1, !.ret = found]
    ELSE IF s.retry < MAX_RETRIES - 1
    THEN [s EXCEPT !.pc = "sleep", !.attempts = @ + 1, !.sleeps = @ + 1,
                   !.wake = s.elapsed + s.ty.sleep_duration_ms]
    ELSE [s EXCEPT !.pc = "sleep", !.retry = @ - 1]

\* one iteration of `for retry in 0..MAX_RETRIES`, given what get() found:
\* return the instance, or sleep, or (after the last iteration) panic
LoopBody(s, found) ==
    IF found # <<>>
    THEN [s EXCEPT !.pc = "returned", !.attempts = @ + 1, !.ret = found]
    ELSE IF ShouldSleep(s.retry)
    THEN [s EXCEPT !.pc = "sleep", !.attempts = @ + 1, !.sleeps = @ + 1,
                   !.wake = WakeAt(s)]
    ELSE [s EXCEPT !.pc = "panicked", !.attempts = @ + 1,
                   !.panic = <<NotInitialized(s.ty)>>]

\* the loop variable of the iteration that starts now
NextIteration(s) == IF s.pc = "sleep" THEN [s EXCEPT !.retry = @ + 1] ELSE s

\* a thread that has left global() has no wake-up time pending
Settled(s) == IF Active(s) THEN s ELSE [s EXCEPT !.wake = 0]

\* a poll that fills an empty cell with a default instance, as get_or_init
\* in the place of get would
global_poll_or_init(r) ==
    /\ r \in DOMAIN rd
    /\ Runnable(rd[r])
    /\ LET s == NextIteration(rd[r])
           cell == statics[s.ty.static]
           filled == IF cell = <<>> THEN <<Wrapped(s.ty, Instance(""))>> ELSE cell
       IN /\ rd' = [rd EXCEPT ![r] =
                      [s EXCEPT !.pc = "returned", !.attempts = @ + 1,
                                !.ret = filled, !.wake = 0]]
          /\ statics' = [statics EXCEPT ![s.ty.static] = filled]
          /\ seen' = [seen EXCEPT ![s.ty.static] = @ \cup {filled[1]}]
    /\ UNCHANGED <<program, pb>>

\* a poll whose panic leaves the cell poisoned, as the panic of a thread
\* that holds a Mutex does
global_poll_poisoning(r) ==
    /\ r \in DOMAIN rd
    /\ Runnable(rd[r])
    /\ LET s == NextIteration(rd[r])
           found == OnceLockGet(statics[s.ty.static])
           t == LoopBody(s, found)
       IN /\ rd' = [rd EXCEPT ![r] = Settled(t)]
          /\ seen' = IF t.pc = "returned"
                     THEN [seen EXCEPT ![s.ty.static] = @ \cup {t.ret[1]}]
                     ELSE seen
          /\ statics' = IF t.pc = "panicked"
                        THEN [statics EXCEPT ![s.ty.static] =
                                <<Wrapped(s.ty, Instance("poisoned"))>>]
                        ELSE statics
    /\ UNCHANGED <<program, pb>>

\* a poll of global(): the iteration's #instance_name.get() and what follows
global_poll(r) ==
    /\ r \in DOMAIN rd
    /\ Runnable(rd[r])
    /\ LET s == NextIteration(rd[r])
           found == OnceLockGet(statics[s.ty.static])
           t == LoopBody(s, found)
       IN /\ rd' = [rd EXCEPT ![r] = Settled(t)]
          /\ seen' = IF t.pc = "returned"
                     THEN [seen EXCEPT ![s.ty.static] = @ \cup {t.ret[1]}]
                     ELSE seen
    /\ UNCHANGED <<program, statics, pb>>

\* an init() that cannot proceed while a reader of the cell sleeps, as if
\* the reader slept holding a lock that set() needs
init_unless_asleep(p, st) ==
    /\ pb[p].pc = "idle"
    /\ st \in program
    /\ \A r \in DOMAIN rd : ~(rd[r].pc = "sleep" /\ rd[r].ty = st)
    /\ LET out == OnceLockSet(statics[st.static], Wrapped(st, Instance(PayloadOf[p])))
       IN /\ statics' = [statics EXCEPT ![st.static] = out.cell]
          /\ pb' = [pb EXCEPT ![p] =
                      [pc |-> IF out.res = "Ok" THEN "done" ELSE "panicked",
                       ty |-> st,
                       instance |-> Instance(PayloadOf[p]),
                       panic |-> IF out.res = "Ok" THEN <<>>
                                 ELSE <<AlreadyInitialized(st)>>]]
          /\ rd' = [r \in DOMAIN rd |->
                      IF /\ out.res = "Ok"
                         /\ Active(rd[r])
                         /\ rd[r].ty = st
                         /\ rd[r].pubAt = -1
                      THEN [rd[r] EXCEPT !.pubAt = rd[r].elapsed]
                      ELSE rd[r]]
    /\ UNCHANGED <<program, seen>>

\* init(instance): #instance_name.set(..).expect(..)
init(p, st) ==
    /\ pb[p].pc = "idle"
    /\ st \in program
    /\ LET out == OnceLockSet(statics[st.static], Wrapped(st, Instance(PayloadOf[p])))
       IN /\ statics' = [statics EXCEPT ![st.static] = out.cell]
          /\ pb' = [pb EXCEPT ![p] =
                      [pc |-> IF out.res = "Ok" THEN "done" ELSE "panicked",
                       ty |-> st,
                       instance |-> Instance(PayloadOf[p]),
                       panic |-> IF out.res = "Ok" THEN <<>>
                                 ELSE <<AlreadyInitialized(st)>>]]
          /\ rd' = [r \in DOMAIN rd |->
                      IF /\ out.res = "Ok"
                         /\ Active(rd[r])
                         /\ rd[r].ty = st
                         /\ rd[r].pubAt = -1
                      THEN [rd[r] EXCEPT !.pubAt = rd[r].elapsed]
                      ELSE rd[r]]
    /\ UNCHANGED <<program, seen>>

\* one millisecond passes.  A sleeping thread stays asleep; a runnable
\* thread that has not polled yet loses the tick, which the scheduler may
\* do to one read at most MaxLate times.
Tick ==
    /\ \E r \in DOMAIN rd : Active(rd[r])
    /\ \A r \in DOMAIN rd : Runnable(rd[r]) => rd[r].late < MaxLate
    /\ rd' = [r \in DOMAIN rd |->
                IF ~Active(rd[r]) THEN rd[r]
                ELSE [rd[r] EXCEPT !.elapsed = @ + 1,
                                   !.late = IF Runnable(rd[r]) THEN @ + 1 ELSE @]]
    /\ UNCHANGED <<program, statics, pb, seen>>

Next ==
    \/ \E r \in DOMAIN rd, st \in program : global(r, st)
    \/ \E r \in DOMAIN rd : global_poll(r)
    \/ \E p \in Publishers, st \in program : init(p, st)
    \/ Tick

Spec == Init /\ [][Next]_vars

\* the runs in which no thread ever calls init()
NextNoInit ==
    \/ \E r \in DOMAIN rd, st \in program : global(r, st)
    \/ \E r \in DOMAIN rd : global_poll(r)
    \/ Tick

\* time passes, and a thread whose poll is due is scheduled in the end
Fairness == WF_vars(Tick) /\ \A r \in Readers : WF_vars(global_poll(r))

FairSpec == Init /\ [][Next]_vars /\ Fairness

FairNoInit == Init /\ [][NextNoInit]_vars /\ Fairness

----------------------------------------------------------------------------
\* Properties

Cell(st) == statics[st.static]
Occupied(st) == Cell(st) # <<>>
Finished(s) == s.pc \in {"returned", "panicked"}

\* the publishers that have called init() of struct st, and those among
\* them whose call returned normally
Callers(st) == {p \in Publishers : pb[p].pc # "idle" /\ pb[p].ty = st}
Winners(st) == {p \in Callers(st) : pb[p].pc = "done"}

\* C1: among the calls of init() made on one cell, in whatever order they
\* take effect, exactly one returns normally; every other one panics with
\* "already initialized"; and the cell holds the value of the call that
\* returned normally.
C1_ExactlyOnePublish ==
    \A st \in program :
        /\ Callers(st) # {} => Cardinality(Winners(st)) = 1
        /\ Callers(st) = {} => ~Occupied(st)
        /\ \A p \in Callers(st) \ Winners(st) :
              /\ pb[p].pc = "panicked"
              /\ pb[p].panic = <<AlreadyInitialized(st)>>
        /\ \A p \in Winners(st) : Cell(st) = <<Wrapped(st, pb[p].instance)>>

\* both publishers have called init() on the same cell
C1_Witness ==
    \E st \in program :
        /\ Callers(st) = Publishers
        /\ \E p \in Publishers : pb[p].pc = "panicked"

\* C2: whatever a call of global() returns is the value (the instance, or
\* the Arc holding it) that the one successful init() stored: nothing is
\* returned while no init() has succeeded, and never the value of an init()
\* that panicked.
C2_ReadReturnsPublished ==
    /\ \A r \in DOMAIN rd :
          rd[r].pc = "returned" =>
              /\ Len(rd[r].ret) = 1
              /\ \E p \in Winners(rd[r].ty) :
                    rd[r].ret[1] = Wrapped(rd[r].ty, pb[p].instance)
              /\ \A p \in Callers(rd[r].ty) \ Winners(rd[r].ty) :
                    rd[r].ret[1] # Wrapped(rd[r].ty, pb[p].instance)
    /\ \A st \in program :
          \A v \in seen[st.static] :
              \E p \in Winners(st) : v = Wrapped(st, pb[p].instance)

\* a read has returned although another init() was attempted and rejected
C2_Witness ==
    \E r \in DOMAIN rd :
        /\ rd[r].pc = "returned"
        /\ \E p \in Callers(rd[r].ty) : pb[p].pc = "panicked"

\* C3: all the values that calls of global() on one cell have returned, by
\* any thread and at any time, are one and the same value.
C3_ReadStability ==
    /\ \A st \in program : Cardinality(seen[st.static]) <= 1
    /\ \A r \in DOMAIN rd :
          rd[r].pc = "returned" => seen[rd[r].ty.static] = {rd[r].ret[1]}

\* two threads have read the cell, one of them after waiting for it, and a
\* second init() has been attempted in between or after
C3_Witness ==
    /\ \A r \in Readers : r \in DOMAIN rd /\ rd[r].pc = "returned"
    /\ \E r \in Readers : rd[r].sleeps > 0
    /\ \E r \in Readers : rd[r].occAtCall
    /\ \E p \in Publishers : pb[p].pc = "panicked"

\* C4: a cell that holds a value keeps that very value in every step, and a
\* poll of a cell from which some call has already returned a value returns
\* too.
C4_Monotonic ==
    [][/\ \A st \in program : Occupied(st) => statics'[st.static] = Cell(st)
       /\ \A r \in DOMAIN rd :
             (/\ Active(rd[r])
              /\ rd'[r].attempts = rd[r].attempts + 1
              /\ seen[rd[r].ty.static] # {})
             => rd'[r].pc = "returned"]_vars

\* a cell that is full has been the target of a second init() and has been
\* read by a thread that had to wait for it
C4_Witness ==
    \E st \in program :
        /\ Occupied(st)
        /\ \E p \in Callers(st) : pb[p].pc = "panicked"
        /\ \E r \in DOMAIN rd : rd[r].pc = "returned" /\ rd[r].sleeps > 0

\* C5: when no init() is ever called, a call of global() polls MAX_RETRIES
\* times with MAX_RETRIES - 1 sleeps between the polls, so that at least
\* (MAX_RETRIES - 1) * sleep_duration has passed when it panics with the
\* "not initialized" message; and every such call does come to that panic.
C5_TimeoutDeterminism ==
    /\ [](\A r \in DOMAIN rd :
            rd[r].pc = "panicked" =>
                /\ rd[r].attempts = MAX_RETRIES
                /\ rd[r].sleeps = MAX_RETRIES - 1
                /\ rd[r].elapsed >= (MAX_RETRIES - 1) * rd[r].ty.sleep_duration_ms
                /\ rd[r].panic = <<NotInitialized(rd[r].ty)>>
                /\ rd[r].ret = <<>>)
    /\ \A r \in Readers :
          (r \in DOMAIN rd /\ Active(rd[r]))
              ~> (r \in DOMAIN rd /\ rd[r].pc = "panicked")

\* a call has panicked after its 20 polls, in a run with a 2 ms interval
C5_Witness ==
    \E r \in DOMAIN rd :
        /\ rd[r].pc = "panicked"
        /\ rd[r].ty.sleep_duration_ms = 2
        /\ rd[r].elapsed >= 38
        /\ \A p \in Publishers : pb[p].pc = "idle"

\* the smallest k with k * i >= d
Ceil(d, i) == (d + i - 1) \div i

\* the interval of a read's cell
IntervalOf(s) == s.ty.sleep_duration_ms

\* the value stored in the cell a read is about
Published(s) == Cell(s.ty)

\* C6 as claimed: a read that was under way when init() filled the cell,
\* d > 0 ms after the read began, returns the value no earlier than d and no
\* later than ceil(d / interval) * interval after it began.
C6_Original ==
    \A r \in DOMAIN rd :
        (rd[r].pubAt > 0 /\ Finished(rd[r])) =>
            /\ rd[r].pc = "returned"
            /\ rd[r].elapsed >= rd[r].pubAt
            /\ rd[r].elapsed <= Ceil(rd[r].pubAt, IntervalOf(rd[r])) * IntervalOf(rd[r])

\* C6, amended: such a read returns the value no earlier than d and no later
\* than (floor(d / interval) + 1) * interval plus the delay the scheduler
\* added to its polls.
C6_BoundedWait ==
    \A r \in DOMAIN rd :
        (rd[r].pubAt >= 0 /\ Finished(rd[r])) =>
            /\ rd[r].pc = "returned"
            /\ rd[r].ret = Published(rd[r])
            /\ rd[r].elapsed >= rd[r].pubAt
            /\ rd[r].elapsed <=
                  (rd[r].pubAt \div IntervalOf(rd[r]) + 1) * IntervalOf(rd[r])
                  + rd[r].late

\* a read returned the value later than ceil(d / interval) * interval,
\* having been delayed
C6_Witness ==
    \E r \in DOMAIN rd :
        /\ rd[r].pc = "returned"
        /\ rd[r].pubAt > 0
        /\ rd[r].sleeps >= 2
        /\ rd[r].late > 0
        /\ rd[r].elapsed > Ceil(rd[r].pubAt, IntervalOf(rd[r])) * IntervalOf(rd[r])

\* C7: a call of global() made when the cell is already full returns the
\* value at its first poll, without sleeping.
C7_FastPath ==
    \A r \in DOMAIN rd :
        rd[r].occAtCall =>
            /\ rd[r].pc \in {"entry", "returned"}
            /\ rd[r].sleeps = 0
            /\ rd[r].pc = "returned" =>
                  /\ rd[r].attempts = 1
                  /\ rd[r].retry = 0
                  /\ rd[r].ret = Published(rd[r])

\* a call made after init() has returned
C7_Witness ==
    \E r \in DOMAIN rd :
        /\ rd[r].pc = "returned"
        /\ rd[r].occAtCall
        /\ rd[r].attempts = 1

\* C8 as claimed: a read that began on an empty cell, which init() filled
\* d > 0 ms later, sleeps at least once and returns after exactly
\* ceil(d / interval) sleeps.
C8_Original ==
    \A r \in DOMAIN rd :
        (~rd[r].occAtCall /\ rd[r].pubAt > 0 /\ Finished(rd[r])) =>
            /\ rd[r].pc = "returned"
            /\ rd[r].sleeps >= 1
            /\ rd[r].sleeps = Ceil(rd[r].pubAt, IntervalOf(rd[r]))

\* C8, amended: such a read returns the published value after at most
\* floor(d / interval) + 1 sleeps, and after at least ceil(d / interval)
\* sleeps (so at least one) when none of its polls was delayed.
C8_PollAfterPublish ==
    \A r \in DOMAIN rd :
        (~rd[r].occAtCall /\ rd[r].pubAt > 0 /\ Finished(rd[r])) =>
            /\ rd[r].pc = "returned"
            /\ rd[r].ret = Published(rd[r])
            /\ rd[r].sleeps <= rd[r].pubAt \div IntervalOf(rd[r]) + 1
            /\ rd[r].late = 0 =>
                  rd[r].sleeps >= Ceil(rd[r].pubAt, IntervalOf(rd[r]))

\* interval 2, init() 3 ms after the read began, no delay: two sleeps
C8_Witness ==
    \E r \in DOMAIN rd :
        /\ rd[r].pc = "returned"
        /\ ~rd[r].occAtCall
        /\ IntervalOf(rd[r]) = 2
        /\ rd[r].pubAt = 3
        /\ rd[r].late = 0
        /\ rd[r].sleeps = 2

\* C9: a call of init() on a cell that is already full panics with "already
\* initialized" and leaves every cell exactly as it was.
C9_RejectedPublish ==
    [][\A p \in Publishers :
          (/\ pb[p].pc = "idle"
           /\ pb'[p].pc # "idle"
           /\ Occupied(pb'[p].ty))
          => /\ pb'[p].pc = "panicked"
             /\ pb'[p].panic = <<AlreadyInitialized(pb'[p].ty)>>
             /\ statics' = statics]_vars

\* an init() has been rejected and the cell holds the other publisher's value
C9_Witness ==
    \E p \in Publishers, q \in Publishers :
        /\ pb[p].pc = "panicked"
        /\ pb[q].pc = "done"
        /\ Cell(pb[p].ty) = <<Wrapped(pb[p].ty, pb[q].instance)>>
        /\ Cell(pb[p].ty) # <<Wrapped(pb[p].ty, pb[p].instance)>>

\* the sleep_ms literal written in the attribute of the struct called name
LiteralMs(name) ==
    LET d == CHOOSE d \in {ConfigDecl, CacheDecl, DatabaseDecl, PoolDecl} :
                d.name = name
    IN d.args[Len(d.args)].value

\* C10: a call of global() that has used up its polls panics with "Singleton
\* '<name>' not initialized after 20 retries (<interval>ms each). Call init()
\* first.", where <name> is the struct it was called on and <interval> the
\* sleep_ms of that struct's attribute, in Direct and in arc mode.
C10_TimeoutMessage ==
    \A r \in DOMAIN rd :
        rd[r].pc = "panicked" =>
            /\ rd[r].attempts = 20
            /\ rd[r].panic =
                 <<[fmt |-> "Singleton '{}' not initialized after {} retries ({}ms each). Call init() first.",
                    args |-> <<rd[r].ty.name, 20, LiteralMs(rd[r].ty.name)>>]>>

\* a call on an arc-mode struct has panicked
C10_Witness ==
    \E r \in DOMAIN rd :
        /\ rd[r].pc = "panicked"
        /\ rd[r].ty.use_arc
        /\ rd[r].ty.name = <<"D","a","t","a","b","a","s","e">>

\* a step of reader r's call of global(): the call, a poll with its return,
\* sleep or panic, or a tick that passes while the call is under way
ReadStep(r) == pb' = pb /\ rd'[r] # rd[r]

\* C11: no step of a call of global() (the call, an observation, the time
\* spent asleep, the return, the panic) changes any cell, be it empty or
\* full.
C11_ReadIsObserver ==
    [][\A r \in DOMAIN rd : ReadStep(r) => statics' = statics]_vars

\* reads have ended both ways: one panicked on the empty cell, another
\* returned the value after waiting for it
C11_Witness ==
    /\ \E r \in DOMAIN rd : rd[r].pc = "panicked"
    /\ \E r \in DOMAIN rd : rd[r].pc = "returned" /\ rd[r].sleeps > 0
    /\ \E st \in program : Occupied(st)

SleepRequested(s) == s.sleeps * IntervalOf(s)

\* a time the read has spent asleep for certain: the interval for every
\* sleep that is over, which thread::sleep guarantees, and for the sleep it
\* is in the time since that sleep began
SleptAtLeast(s) ==
    IF s.pc = "sleep"
    THEN (s.sleeps - 1) * IntervalOf(s) + (s.elapsed - (s.wake - IntervalOf(s)))
    ELSE SleepRequested(s)

\* the counts of one read: at most MAX_RETRIES looks at the cell and at most
\* MAX_RETRIES - 1 sleeps; a sleep follows an attempt only if that attempt
\* found the cell empty and was not the last one
SleepsFollowEmptyPolls(s) ==
    /\ s.attempts <= MAX_RETRIES
    /\ s.sleeps <= MAX_RETRIES - 1
    /\ s.pc = "sleep" => (s.sleeps = s.attempts /\ s.attempts < MAX_RETRIES)
    /\ s.pc = "returned" => (s.sleeps = s.attempts - 1 /\ s.ret # <<>>)
    /\ s.pc = "panicked" =>
          (s.attempts = MAX_RETRIES /\ s.sleeps = MAX_RETRIES - 1)

Twin == [r1 |-> "r1_arc", p1 |-> "p1_arc", p2 |-> "p2_arc"]
PairReaders == {"r1"}

\* the pairs of declarations with equal sleep_ms
PairRuns == {<<CacheDecl, PoolDecl>>, <<ConfigDecl, DatabaseDecl>>}

DirectStruct == CHOOSE st \in program : ~st.use_arc
ArcStruct == CHOOSE st \in program : st.use_arc

PairInit ==
    /\ \E pair \in PairRuns : program = {Expand(pair[1]), Expand(pair[2])}
    /\ rd = [r \in PairReaders \cup {Twin[r] : r \in PairReaders} |-> IdleReader]
    /\ pb = [p \in Publishers \cup {Twin[p] : p \in Publishers} |-> IdlePublisher]
    /\ statics = [n \in {st.static : st \in program} |-> OnceLockNew]
    /\ seen = [n \in {st.static : st \in program} |-> {}]

\* the thread's record on entering global() of struct st
Entered(st) ==
    [IdleReader EXCEPT !.pc = "entry", !.ty = st,
                       !.occAtCall = (statics[st.static] # <<>>)]

\* the thread's record after the poll that is due
Polled(s) ==
    Settled(LoopBody(NextIteration(s), OnceLockGet(statics[s.ty.static])))

\* what init() of struct st with the given payload does to the cell
SetBy(st, payload) ==
    OnceLockSet(statics[st.static], Wrapped(st, Instance(payload)))

\* the publisher's record after init() of struct st ended with out
Initialized(st, payload, out) ==
    [pc |-> IF out.res = "Ok" THEN "done" ELSE "panicked",
     ty |-> st,
     instance |-> Instance(payload),
     panic |-> IF out.res = "Ok" THEN <<>> ELSE <<AlreadyInitialized(st)>>]

\* a waiting reader of struct st notes the moment the cell was filled
Noting(s, st, out) ==
    IF out.res = "Ok" /\ Active(s) /\ s.ty = st /\ s.pubAt = -1
    THEN [s EXCEPT !.pubAt = s.elapsed]
    ELSE s

\* a thread and its twin call global()
pair_global(r) ==
    /\ rd[r].pc \in {"idle", "returned", "panicked"}
    /\ rd[Twin[r]].pc \in {"idle", "returned", "panicked"}
    /\ rd' = [rd EXCEPT ![r] = Entered(DirectStruct),
                        ![Twin[r]] = Entered(ArcStruct)]
    /\ UNCHANGED <<program, statics, pb, seen>>

\* a thread and its twin make the poll that is due
pair_poll(r) ==
    /\ Runnable(rd[r])
    /\ Runnable(rd[Twin[r]])
    /\ LET d == Polled(rd[r])
           a == Polled(rd[Twin[r]])
           sawD == IF d.pc = "returned" THEN {d.ret[1]} ELSE {}
           sawA == IF a.pc = "returned" THEN {a.ret[1]} ELSE {}
       IN /\ rd' = [rd EXCEPT ![r] = d, ![Twin[r]] = a]
          /\ seen' = [seen EXCEPT ![d.ty.static] = @ \cup sawD,
                                  ![a.ty.static] = @ \cup sawA]
    /\ UNCHANGED <<program, statics, pb>>

\* a thread and its twin call init() with the same payload
pair_init(p) ==
    /\ pb[p].pc = "idle"
    /\ pb[Twin[p]].pc = "idle"
    /\ LET d == SetBy(DirectStruct, PayloadOf[p])
           a == SetBy(ArcStruct, PayloadOf[p])
       IN /\ statics' = [statics EXCEPT ![DirectStruct.static] = d.cell,
                                        ![ArcStruct.static] = a.cell]
          /\ pb' = [pb EXCEPT
                      ![p] = Initialized(DirectStruct, PayloadOf[p], d),
                      ![Twin[p]] = Initialized(ArcStruct, PayloadOf[p], a)]
          /\ rd' = [r \in DOMAIN rd |->
                      Noting(Noting(rd[r], DirectStruct, d), ArcStruct, a)]
    /\ UNCHANGED <<program, seen>>

PairNext ==
    \/ \E r \in PairReaders : pair_global(r)
    \/ \E r \in PairReaders : pair_poll(r)
    \/ \E p \in Publishers : pair_init(p)
    \/ Tick

PairSpec == PairInit /\ [][PairNext]_vars

\* what a value is, whatever shape it is handed out in
Payload(v) == v.data

\* the state of a call of global() without the shape of what it returns:
\* where it stands, its counts and times, the payload it got, and whether
\* its panic is the not-initialized message of its own struct
ReadOutcome(s) ==
    [pc |-> s.pc, retry |-> s.retry, elapsed |-> s.elapsed, wake |-> s.wake,
     late |-> s.late, attempts |-> s.attempts,
     sleeps |-> s.sleeps, occAtCall |-> s.occAtCall, pubAt |-> s.pubAt,
     interval |-> s.ty.sleep_duration_ms,
     got |-> {Payload(s.ret[i]) : i \in DOMAIN s.ret},
     uninitialized |-> (s.panic # <<>> /\ s.panic = <<NotInitialized(s.ty)>>),
     panics |-> Len(s.panic)]

\* the state of a call of init(): where it stands and whether its panic is
\* the already-initialized message of its own struct
InitOutcome(s) ==
    [pc |-> s.pc, instance |-> s.instance,
     rejected |-> (s.panic # <<>> /\ s.panic = <<AlreadyInitialized(s.ty)>>),
     panics |-> Len(s.panic)]

MaxArgs == 5

\* the tokens argument lists are made of
ArgTokens ==
    {Ident("arc"), Ident("sleep_ms"), Ident("rc"), Punct(","), Punct("="),
     LitInt(0), LitInt(250), HugeLitInt}

ArgLists == UNION {[1..n -> ArgTokens] : n \in 0..MaxArgs}

\* an annotated struct, an expanded one, a rejected one
IsDecl(item) == "args" \in DOMAIN item
IsStruct(item) == "static" \in DOMAIN item
IsError(item) == "error" \in DOMAIN item

MacroInit ==
    /\ \E args \in ArgLists : program = {[name |-> ConfigDecl.name, args |-> args]}
    /\ statics = <<>>
    /\ rd = <<>>
    /\ pb = <<>>
    /\ seen = <<>>

\* the statics after the static of struct st has been emitted
WithStatic(cells, st, empty) ==
    [n \in DOMAIN cells \cup {st.static} |->
        IF n \in DOMAIN cells THEN cells[n] ELSE empty]

\* #[singleton(args)] on a struct whose arguments parse: the struct, its
\* static and its impl block are emitted
singleton(decl) ==
    /\ decl \in program
    /\ IsDecl(decl)
    /\ Accepted(decl.args)
    /\ program' = (program \ {decl}) \cup {Expand(decl)}
    /\ statics' = WithStatic(statics, Expand(decl), OnceLockNew)
    /\ seen' = WithStatic(seen, Expand(decl), {})
    /\ UNCHANGED <<rd, pb>>

\* #[singleton(args)] on a struct whose arguments do not parse:
\* parse_macro_input! emits the parser's error, or its own when tokens
\* are left unread
singleton_error(decl) ==
    /\ decl \in program
    /\ IsDecl(decl)
    /\ ~Accepted(decl.args)
    /\ program' = (program \ {decl}) \cup
          {[name |-> decl.name,
            error |-> IF parse(decl.args).ok THEN "unexpected token"
                      ELSE parse(decl.args).err]}
    /\ UNCHANGED <<statics, rd, pb, seen>>

MacroNext ==
    \/ \E decl \in program : singleton(decl)
    \/ \E decl \in program : singleton_error(decl)

MacroSpec == MacroInit /\ [][MacroNext]_vars

\* C15: every struct the macro emits has a sleep interval above zero.
C15_PositiveInterval ==
    \A st \in program : IsStruct(st) => st.sleep_duration_ms > 0

\* the argument forms of the macro's documentation: nothing, arc, arc with
\* a trailing comma, sleep_ms = N, and arc, sleep_ms = N
GivesArc(args) == \E i \in DOMAIN args : args[i] = Ident("arc")
GivesSleepMs(args) == \E i \in DOMAIN args : args[i] = Ident("sleep_ms")
SleepMsGiven(args) == args[Len(args)].value
DocumentedForm(args) ==
    \/ args \in {<<>>, <<Ident("arc")>>, <<Ident("arc"), Punct(",")>>}
    \/ \E n \in {tok.value : tok \in {t \in ArgTokens : t.kind = "int" /\ t # HugeLitInt}} :
          args \in {<<Ident("sleep_ms"), Punct("="), LitInt(n)>>,
                    <<Ident("arc"), Punct(","), Ident("sleep_ms"), Punct("="), LitInt(n)>>}

\* C16: whenever the macro expands an annotated struct, its arguments have
\* one of the documented forms; the struct's sleep interval is the sleep_ms
\* value if the arguments give one and 500 if they do not; its mode is Arc
\* exactly if the arguments give arc; and the retry count its panic reports
\* is 20.
C16_ConfigResolution ==
    [][\A decl \in program :
          (IsDecl(decl) /\ decl \notin program') =>
              \A st \in program' \ program :
                  IsStruct(st) =>
                      /\ DocumentedForm(decl.args)
                      /\ st.name = decl.name
                      /\ st.sleep_duration_ms =
                            IF GivesSleepMs(decl.args) THEN SleepMsGiven(decl.args)
                            ELSE 500
                      /\ st.use_arc = GivesArc(decl.args)
                      /\ NotInitialized(st).args[2] = 20
                      /\ MAX_RETRIES = 20]_vars

\* the macro has expanded an Arc struct that has the default interval, and
\* the static of the struct exists
C16_Witness ==
    \E st \in program :
        /\ IsStruct(st)
        /\ st.use_arc
        /\ st.sleep_duration_ms = 500
        /\ st.static \in DOMAIN statics

\* a step in which thread r looks at the cell: one more attempt of the call
\* it is in
PollStep(r) ==
    /\ Runnable(rd[r])
    /\ rd'[r].ty = rd[r].ty
    /\ rd'[r].attempts = rd[r].attempts + 1

\* C17: a poll that finds the cell full ends the read with the value, so a
\* poll after which the read sleeps on or panics found the cell empty; and
\* a read panics only at its MAX_RETRIES-th poll, no init() having filled
\* the cell before the call or while the read was under way.
C17_FailsOnlyIfAlwaysEmpty ==
    [][\A r \in DOMAIN rd :
          PollStep(r) =>
              /\ Occupied(rd[r].ty) =>
                    /\ rd'[r].pc = "returned"
                    /\ rd'[r].ret = Cell(rd[r].ty)
              /\ rd'[r].pc \in {"sleep", "panicked"} => ~Occupied(rd[r].ty)
              /\ rd'[r].pc = "panicked" =>
                    /\ rd'[r].attempts = MAX_RETRIES
                    /\ rd'[r].panic = <<NotInitialized(rd[r].ty)>>
                    /\ ~rd'[r].occAtCall
                    /\ rd'[r].pubAt = -1]_vars

\* a read has panicked and the cell has been filled since, while another
\* read that polled the full cell has returned
C17_Witness ==
    \E r, q \in DOMAIN rd :
        /\ rd[r].pc = "panicked"
        /\ Occupied(rd[r].ty)
        /\ rd[q].pc = "returned"
        /\ rd[q].ty = rd[r].ty
        /\ rd[q].pubAt >= 0

\* a call of global() on struct st has timed out
TimedOut(st) == \E r \in DOMAIN rd : rd[r].pc = "panicked" /\ rd[r].ty = st

\* C18: the step in which a read panics leaves the cell empty and every
\* other thread as it was; once a read of a cell has timed out, an init()
\* on the still empty cell returns normally and stores its value, and a
\* read that is called when the cell has been filled returns that value at
\* its first poll.
C18_TimeoutLeavesCellUsable ==
    [][/\ \A r \in DOMAIN rd :
             (rd[r].pc # "panicked" /\ rd'[r].pc = "panicked") =>
                 /\ statics' = statics
                 /\ ~Occupied(rd[r].ty)
                 /\ pb' = pb
                 /\ \A q \in DOMAIN rd \ {r} : rd'[q] = rd[q]
       /\ \A p \in Publishers, st \in program :
             (/\ TimedOut(st)
              /\ ~Occupied(st)
              /\ pb[p].pc = "idle"
              /\ pb'[p].pc # "idle"
              /\ pb'[p].ty = st) =>
                 /\ pb'[p].pc = "done"
                 /\ statics'[st.static] = <<Wrapped(st, pb'[p].instance)>>
                 /\ \A r \in DOMAIN rd :
                       rd[r].pc = "panicked" => rd'[r] = rd[r]
       /\ \A q \in DOMAIN rd :
             (TimedOut(rd[q].ty) /\ rd[q].occAtCall /\ PollStep(q)) =>
                 /\ rd'[q].pc = "returned"
                 /\ rd'[q].attempts = 1
                 /\ rd'[q].sleeps = 0
                 /\ rd'[q].ret = Cell(rd[q].ty)]_vars

\* a read timed out, an init() on the cell then returned normally, and a
\* read called after it returned the value at its first poll
C18_Witness ==
    \E r, q \in DOMAIN rd, p \in Publishers :
        /\ rd[r].pc = "panicked"
        /\ pb[p].pc = "done" /\ pb[p].ty = rd[r].ty
        /\ rd[q].pc = "returned" /\ rd[q].ty = rd[r].ty
        /\ rd[q].occAtCall
        /\ rd[q].attempts = 1
        /\ rd[q].ret = <<Wrapped(rd[r].ty, pb[p].instance)>>

\* the most milliseconds by which the calls of two reader threads may lie
\* apart in the runs of FairTogether
MaxSkew == 0

\* no read is further under way than MaxSkew, and none has ended
Together ==
    \A q \in DOMAIN rd :
        rd[q].pc = "idle" \/ (Active(rd[q]) /\ rd[q].elapsed <= MaxSkew)

\* the runs in which every reader thread calls global() once, all of them
\* within MaxSkew of each other
NextTogether ==
    \/ \E r \in DOMAIN rd, st \in program :
          rd[r].pc = "idle" /\ Together /\ global(r, st)
    \/ \E r \in DOMAIN rd : global_poll(r)
    \/ \E p \in Publishers, st \in program : init(p, st)
    \/ Tick

FairTogether == Init /\ [][NextTogether]_vars /\ Fairness

\* how a call of global() can end: with the value of the cell after at most
\* MAX_RETRIES polls, or with the not-initialized panic after MAX_RETRIES
Terminated(s) ==
    \/ /\ s.pc = "returned"
       /\ s.attempts <= MAX_RETRIES
       /\ s.ret = Published(s)
    \/ /\ s.pc = "panicked"
       /\ s.attempts = MAX_RETRIES
       /\ s.panic = <<NotInitialized(s.ty)>>

\* C19: if time passes and every thread whose poll is due is scheduled in
\* the end, every call of global() ends, whatever other readers and the
\* publishers do meanwhile: it returns the value of the cell, or it panics
\* with the not-initialized message, after MAX_RETRIES polls at most.
C19_ReadTerminates ==
    \A r \in Readers :
        (r \in DOMAIN rd /\ Active(rd[r]))
            ~> (r \in DOMAIN rd /\ Terminated(rd[r]))

\* of two reads of one cell under way together, one has timed out and the
\* other, delayed by the scheduler, has returned the value
C19_Witness ==
    \E r, q \in DOMAIN rd :
        /\ rd[r].pc = "panicked" /\ rd[r].attempts = MAX_RETRIES
        /\ rd[q].pc = "returned" /\ rd[q].attempts > 1 /\ rd[q].late > 0
        /\ rd[q].ty = rd[r].ty
        /\ rd[q].pubAt > rd[r].elapsed

\* ---------------------------------------------------------------------
\* Programs with two annotated structs in one module: the macro expands
\* both, the compiler accepts the module or rejects it, and the threads of
\* an accepted program call init() and global() of either struct.

\* a struct whose name differs from Config's only in the case of letters
ShoutDecl ==
    [name |-> <<"C","O","N","F","I","G">>,
     args |-> <<Ident("sleep_ms"), Punct("="), LitInt(2)>>]

ProgRuns == {{ConfigDecl, CacheDecl}, {ConfigDecl, ShoutDecl}}

ProgInit ==
    /\ program \in ProgRuns
    /\ statics = <<>>
    /\ seen = <<>>
    /\ rd = [r \in {"r1"} |-> IdleReader]
    /\ pb = [p \in Publishers |-> IdlePublisher]

\* the module compiles: every attribute has been expanded, and no two
\* emitted statics have the same name (which rustc rejects, error E0428)
Compiles ==
    /\ \A item \in program : IsStruct(item)
    /\ \A s, t \in program : s.static = t.static => s = t

ProgNext ==
    \/ \E decl \in program : singleton(decl)
    \/ Compiles /\ \E r \in DOMAIN rd, st \in program : global(r, st)
    \/ Compiles /\ \E r \in DOMAIN rd : global_poll(r)
    \/ Compiles /\ \E p \in Publishers, st \in program : init(p, st)
    \/ Compiles /\ Tick

ProgSpec == ProgInit /\ [][ProgNext]_vars

\* the structs the macro has emitted so far
Structs == {item \in program : IsStruct(item)}

\* structs with different names have statics with different names
IdentifiersUnique ==
    \A s, t \in Structs : s.name # t.name => s.static # t.static

\* the struct a step of init() or global() is about: the struct of the
\* publisher or reader whose record the step changes
Touched ==
    {pb'[p].ty : p \in {q \in DOMAIN pb : pb'[q] # pb[q]}}
        \cup {rd'[r].ty : r \in {q \in DOMAIN rd : rd'[q] # rd[q] /\ rd'[q].pc # "idle"}}

\* a step of init() or global() of one struct leaves the cells of the other
\* structs as they were, and a value global() returns is the value of the
\* cell of its own struct
CellsFramed ==
    /\ \A st \in Structs :
          (Compiles /\ st \notin Touched) =>
              /\ statics'[st.static] = statics[st.static]
              /\ seen'[st.static] = seen[st.static]
    /\ \A r \in DOMAIN rd :
          (rd'[r].pc = "returned" /\ rd[r].pc # "returned") =>
              /\ rd'[r].ret = statics[rd'[r].ty.static]
              /\ \E p \in Publishers :
                    /\ pb[p].pc = "done"
                    /\ pb[p].ty = rd'[r].ty
                    /\ rd'[r].ret = <<Wrapped(pb[p].ty, pb[p].instance)>>

\* C20: annotated structs with different names get statics with different
\* names, so init() and global() of one struct neither change nor return
\* what the cell of another struct holds.
C20_IndependentCells == []IdentifiersUnique /\ [][CellsFramed]_vars

\* the macro has expanded Config and CONFIG of one module: two structs, one
\* static name, and a module that does not compile
C20_Witness ==
    /\ ~Compiles
    /\ \E s, t \in Structs :
          /\ s.name # t.name
          /\ to_uppercase(s.name) = to_uppercase(t.name)
          /\ s.static = t.static
          /\ DOMAIN statics = {s.static}

====
